---- MODULE Spec2Model ----
(***************************************************************************)
(* A model of crm-xml-processor.js: the command-line tool that downgrades  *)
(* a CRM customizations.xml file in place (remove elements, remove         *)
(* attributes, add ObjectTypeCode elements) after taking a backup copy.    *)
(*                                                                         *)
(* Strings the program computes with (CSV lines, text content, type codes) *)
(* are sequences of one-character strings; tag and attribute names, which  *)
(* the program only compares, are TLA+ strings.                            *)
(***************************************************************************)
EXTENDS Integers, Sequences, FiniteSets, TLC

VARIABLES
    pc,               \* position of the process in main / processFile
    config,           \* the value JSON.parse reads from the config file
    csvFile,          \* the file config.entityTypeCodesFile names: [exists, lines]
    xmlFile,          \* content of the file at xmlPath
    backups,          \* contents of the backup files, oldest first
    entityTypeCodes,  \* this.entityTypeCodes: a set of <<key, value>> pairs
    doc,              \* the DOM document of processFile
    idx,              \* position of the forEach over names / rules
    removedCounts,    \* elementsArray.length of each removeElements turn
    attrCounts,       \* removedCount of each removeAttributes call
    addedCount,       \* addedCount of addObjectTypeCode
    notFoundCount,    \* notFoundCount of addObjectTypeCode
    exitCode,         \* process exit status, meaningful when pc = "exit"
    failedAt,         \* which failure ended the process ("none": still fine)
    original,         \* history: content of xmlFile when the process started
    parsedLen,        \* history: number of nodes the parser created
    writes,           \* history: writeFileSync calls of this process
    outputs           \* history: what each successful process wrote

vars == <<pc, config, csvFile, xmlFile, backups, entityTypeCodes, doc, idx,
          removedCounts, attrCounts, addedCount, notFoundCount, exitCode,
          failedAt, original, parsedLen, writes, outputs>>

----------------------------------------------------------------------------
(* Strings *)

UpperChars == <<"A","B","C","D","E","F","G","H","I","J","K","L","M",
                "N","O","P","Q","R","S","T","U","V","W","X","Y","Z">>
LowerChars == <<"a","b","c","d","e","f","g","h","i","j","k","l","m",
                "n","o","p","q","r","s","t","u","v","w","x","y","z">>

LowerChar(c) ==
    IF \E i \in 1..Len(UpperChars) : UpperChars[i] = c
    THEN LowerChars[CHOOSE i \in 1..Len(UpperChars) : UpperChars[i] = c]
    ELSE c

\* String.prototype.toLowerCase
ToLowerCase(s) == [i \in 1..Len(s) |-> LowerChar(s[i])]

\* String.prototype.includes
Includes(s, sub) ==
    \E i \in 0..(Len(s) - Len(sub)) : SubSeq(s, i + 1, i + Len(sub)) = sub

IsWhitespace(c) == c \in {" ", "\t", "\r"}

RECURSIVE TrimStart(_)
TrimStart(s) ==
    IF s # <<>> /\ IsWhitespace(Head(s)) THEN TrimStart(Tail(s)) ELSE s

RECURSIVE TrimEnd(_)
TrimEnd(s) ==
    IF s # <<>> /\ IsWhitespace(s[Len(s)])
    THEN TrimEnd(SubSeq(s, 1, Len(s) - 1))
    ELSE s

\* String.prototype.trim
Trim(s) == TrimEnd(TrimStart(s))

\* s.split(sep) for a one-character separator: a cut at every occurrence
RECURSIVE SplitFrom(_, _, _)
SplitFrom(s, sep, field) ==
    IF s = <<>> THEN <<field>>
    ELSE IF Head(s) = sep
         THEN <<field>> \o SplitFrom(Tail(s), sep, <<>>)
         ELSE SplitFrom(Tail(s), sep, Append(field, Head(s)))

Split(s, sep) == SplitFrom(s, sep, <<>>)

\* s.replace(/"/g, '')
RemoveQuotes(s) == SelectSeq(s, LAMBDA c : c # "\"")

----------------------------------------------------------------------------
(* The entity type code table: a Map, as a set of <<key, value>> pairs     *)

EmptyMap == {}

MapHas(m, k) == \E p \in m : p[1] = k

MapGet(m, k) == (CHOOSE p \in m : p[1] = k)[2]

\* a table that keeps the first value of a key
MapSetKeepFirst(m, k, v) == IF \E p \in m : p[1] = k THEN m ELSE m \cup {<<k, v>>}

MapSet(m, k, v) == {p \in m : p[1] # k} \cup {<<k, v>>}

Placeholder == <<"#", "#">>

\* the two fields line 41 destructures from one line, after trim and
\* quote removal; a missing second field is undefined, modelled as <<>>
\* (both are falsy at line 42)
LineFields(line) ==
    LET parts == Split(line, ",")
        clean == [i \in 1..Len(parts) |-> RemoveQuotes(Trim(parts[i]))]
    IN  [entityName |-> clean[1],
         typeCode   |-> IF Len(clean) >= 2 THEN clean[2] ELSE <<>>]

\* line 42 without its test of typeCode
RECURSIVE ReadLinesAnyCode(_, _, _)
ReadLinesAnyCode(lines, i, typeCodes) ==
    IF i > Len(lines) THEN typeCodes
    ELSE LET line == Trim(lines[i])
             f    == LineFields(line)
         IN  IF line # <<>> /\ f.entityName # <<>>
             THEN ReadLinesAnyCode(lines, i + 1,
                                   MapSet(typeCodes, f.entityName, f.typeCode))
             ELSE ReadLinesAnyCode(lines, i + 1, typeCodes)

RECURSIVE ReadLines(_, _, _)
ReadLines(lines, i, typeCodes) ==
    IF i > Len(lines) THEN typeCodes
    ELSE LET line == Trim(lines[i])
             f    == LineFields(line)
         IN  IF line # <<>> /\ f.entityName # <<>> /\ f.typeCode # <<>>
             THEN ReadLines(lines, i + 1, MapSet(typeCodes, f.entityName, f.typeCode))
             ELSE ReadLines(lines, i + 1, typeCodes)

IsHeader(line) ==
    \/ Includes(ToLowerCase(line), <<"e","n","t","i","t","y">>)
    \/ Includes(ToLowerCase(line), <<"n","a","m","e">>)

\* csvContent.split('\n').filter(line => line.trim())
NonBlankLines(file) == SelectSeq(file.lines, LAMBDA l : Trim(l) # <<>>)

\* TRUE when the try block of loadEntityTypeCodes throws: readFileSync on a
\* missing file, or lines[0].toLowerCase() when no line is left
LoadThrows(file) == ~file.exists \/ NonBlankLines(file) = <<>>

loadEntityTypeCodes(cfg, file) ==
    IF ~cfg.entityTypeCodesFile THEN EmptyMap
    ELSE IF LoadThrows(file) THEN EmptyMap
    ELSE LET lines == NonBlankLines(file)
             startIndex == IF IsHeader(lines[1]) THEN 2 ELSE 1
         IN  ReadLines(lines, startIndex, EmptyMap)

----------------------------------------------------------------------------
(* The DOM: an arena of nodes. A node's id is its index in doc.nodes; the  *)
(* Document node itself has id DocumentNode and its children are doc.top.  *)

DocumentNode == 0
NullNode == -1

Element(tag, attrs) ==
    [kind |-> "element", tag |-> tag, data |-> <<>>, attrs |-> attrs,
     parentNode |-> NullNode, childNodes |-> <<>>]

Text(data) ==
    [kind |-> "text", tag |-> "#text", data |-> data, attrs |-> {},
     parentNode |-> NullNode, childNodes |-> <<>>]

EmptyDocument == [nodes |-> <<>>, top |-> <<>>]

ChildNodes(d, p) ==
    IF p = DocumentNode THEN d.top ELSE d.nodes[p].childNodes

SetChildNodes(d, p, ks) ==
    IF p = DocumentNode THEN [d EXCEPT !.top = ks]
    ELSE [d EXCEPT !.nodes[p].childNodes = ks]

\* doc.createElement / createTextNode: a new node with no parent
CreateNode(d, node) == [d EXCEPT !.nodes = Append(@, node)]

\* p.appendChild(c), c without a parent
AppendChild(d, p, c) ==
    [SetChildNodes(d, p, Append(ChildNodes(d, p), c))
        EXCEPT !.nodes[c].parentNode = p]

\* p.insertBefore(c, p.firstChild), c without a parent
InsertFirst(d, p, c) ==
    [SetChildNodes(d, p, <<c>> \o ChildNodes(d, p))
        EXCEPT !.nodes[c].parentNode = p]

\* p.removeChild(c)
RemoveChild(d, p, c) ==
    [SetChildNodes(d, p, SelectSeq(ChildNodes(d, p), LAMBDA k : k # c))
        EXCEPT !.nodes[c].parentNode = NullNode]

\* the nodes ns and all their descendants, in document order
RECURSIVE VisitNodes(_, _)
VisitNodes(d, ns) ==
    IF ns = <<>> THEN <<>>
    ELSE <<Head(ns)>> \o VisitNodes(d, ChildNodes(d, Head(ns)))
                      \o VisitNodes(d, Tail(ns))

\* base.getElementsByTagName(tagName): the descendant elements of base
\* (never base itself) with that tag name, in document order
getElementsByTagName(d, base, tagName) ==
    SelectSeq(VisitNodes(d, ChildNodes(d, base)),
              LAMBDA n : d.nodes[n].kind = "element" /\ d.nodes[n].tag = tagName)

RECURSIVE ConcatData(_, _)
ConcatData(d, ns) ==
    IF ns = <<>> THEN <<>>
    ELSE d.nodes[Head(ns)].data \o ConcatData(d, Tail(ns))

\* node.textContent: the data of the text nodes below it, concatenated
TextContent(d, n) == ConcatData(d, VisitNodes(d, ChildNodes(d, n)))

----------------------------------------------------------------------------
(* Serializer and parser. File content is a stream of tokens (start tag    *)
(* with attributes, character data, end tag); character data that is       *)
(* adjacent in the stream is one run of characters.                        *)

OpenToken(node)  == [t |-> "open",  tag |-> node.tag, attrs |-> node.attrs, data |-> <<>>]
CloseToken(tag)  == [t |-> "close", tag |-> tag, attrs |-> {}, data |-> <<>>]
TextToken(data)  == [t |-> "text",  tag |-> "#text", attrs |-> {}, data |-> data]

RECURSIVE SerializeNodes(_, _)
SerializeNodes(d, ns) ==
    IF ns = <<>> THEN <<>>
    ELSE LET node == d.nodes[Head(ns)]
         IN  (IF node.kind = "text" THEN <<TextToken(node.data)>>
              ELSE <<OpenToken(node)>> \o SerializeNodes(d, node.childNodes)
                                      \o <<CloseToken(node.tag)>>)
             \o SerializeNodes(d, Tail(ns))

RECURSIVE MergeText(_)
MergeText(tokens) ==
    IF tokens = <<>> THEN <<>>
    ELSE IF Head(tokens).t = "text"
         THEN IF Head(tokens).data = <<>> THEN MergeText(Tail(tokens))
              ELSE IF Len(tokens) >= 2 /\ tokens[2].t = "text"
                   THEN MergeText(<<TextToken(tokens[1].data \o tokens[2].data)>>
                                  \o SubSeq(tokens, 3, Len(tokens)))
                   ELSE <<Head(tokens)>> \o MergeText(Tail(tokens))
         ELSE <<Head(tokens)>> \o MergeText(Tail(tokens))

WellFormed(tokens) == [wellFormed |-> TRUE, tokens |-> tokens]
Malformed == [wellFormed |-> FALSE, tokens |-> <<>>]

\* XMLSerializer.serializeToString(doc)
serializeToString(d) == WellFormed(MergeText(SerializeNodes(d, d.top)))

RECURSIVE Build(_, _, _)
Build(tokens, d, open) ==
    IF tokens = <<>> THEN d
    ELSE LET tk  == Head(tokens)
             cur == IF open = <<>> THEN DocumentNode ELSE open[Len(open)]
             id  == Len(d.nodes) + 1
         IN  CASE tk.t = "open" ->
                    Build(Tail(tokens),
                          AppendChild(CreateNode(d, Element(tk.tag, tk.attrs)), cur, id),
                          Append(open, id))
               [] tk.t = "text" ->
                    Build(Tail(tokens),
                          AppendChild(CreateNode(d, Text(tk.data)), cur, id),
                          open)
               [] OTHER ->
                    Build(Tail(tokens), d, SubSeq(open, 1, Len(open) - 1))

\* DOMParser.parseFromString on well-formed content
parseFromString(content) == Build(content.tokens, EmptyDocument, <<>>)

\* what the parser hands back when it reports a failure in the tree
ParserErrorDocument ==
    Build(<<OpenToken(Element("parsererror", {})), CloseToken("parsererror")>>,
          EmptyDocument, <<>>)

----------------------------------------------------------------------------
(* The three transformations of processFile *)

\* a loop that stops after its first element
DetachFirst(d, elementsArray) ==
    IF elementsArray = <<>> THEN d
    ELSE RemoveChild(d, d.nodes[Head(elementsArray)].parentNode, Head(elementsArray))

RECURSIVE DetachEach(_, _)
DetachEach(d, elementsArray) ==
    IF elementsArray = <<>> THEN d
    ELSE LET element == Head(elementsArray)
             parent  == d.nodes[element].parentNode
         IN  DetachEach(IF parent # NullNode THEN RemoveChild(d, parent, element)
                        ELSE d,
                        Tail(elementsArray))

\* a turn that walks the live list by index while it detaches
RECURSIVE LiveLoop(_, _, _)
LiveLoop(d, tagName, i) ==
    LET elements == getElementsByTagName(d, DocumentNode, tagName)
    IN  IF i > Len(elements) THEN d
        ELSE LiveLoop(RemoveChild(d, d.nodes[elements[i]].parentNode, elements[i]),
                      tagName, i + 1)

removeElementsLive(d, tagName) ==
    [doc |-> LiveLoop(d, tagName, 1),
     count |-> Len(getElementsByTagName(d, DocumentNode, tagName))]

\* a turn that reports the length of the live list after detaching
removeElementsCountAfter(d, tagName) ==
    LET elementsArray == getElementsByTagName(d, DocumentNode, tagName)
        after == DetachEach(d, elementsArray)
    IN  [doc |-> after,
         count |-> Len(getElementsByTagName(after, DocumentNode, tagName))]

\* one turn of the forEach in removeElements: the snapshot of the elements
\* named tagName, each detached; count is elementsArray.length
removeElements(d, tagName) ==
    LET elementsArray == getElementsByTagName(d, DocumentNode, tagName)
    IN  [doc |-> DetachEach(d, elementsArray), count |-> Len(elementsArray)]

hasAttribute(d, element, attr) ==
    \E a \in d.nodes[element].attrs : a[1] = attr

removeAttribute(d, element, attr) ==
    [d EXCEPT !.nodes[element].attrs = {a \in @ : a[1] # attr}]

\* attributes.forEach(attr => ...) on one element
RECURSIVE StripAttributes(_, _, _, _)
StripAttributes(d, element, attributes, removedCount) ==
    IF attributes = <<>> THEN [doc |-> d, removedCount |-> removedCount]
    ELSE IF hasAttribute(d, element, Head(attributes))
         THEN StripAttributes(removeAttribute(d, element, Head(attributes)),
                              element, Tail(attributes), removedCount + 1)
         ELSE StripAttributes(d, element, Tail(attributes), removedCount)

\* the for loop of removeAttributes over the live list of elements
RECURSIVE AttributeLoop(_, _, _, _, _)
AttributeLoop(d, tagName, attributes, i, removedCount) ==
    LET elements == getElementsByTagName(d, DocumentNode, tagName)
    IN  IF i > Len(elements) THEN [doc |-> d, removedCount |-> removedCount]
        ELSE LET r == StripAttributes(d, elements[i], attributes, removedCount)
             IN  AttributeLoop(r.doc, tagName, attributes, i + 1, r.removedCount)

\* a loop that starts one element too late
removeAttributesFromSecond(d, tagName, attributes) ==
    AttributeLoop(d, tagName, attributes, 2, 0)

removeAttributes(d, tagName, attributes) ==
    AttributeLoop(d, tagName, attributes, 1, 0)

\* a rule without an "attributes" list: attributes.forEach throws a TypeError
\* for the first element the loop reaches
removeAttributesThrows(d, rule) ==
    ~rule.hasAttributes /\ getElementsByTagName(d, DocumentNode, rule.tagName) # <<>>

\* a test that forgets the ObjectTypeCode already there
needsObjectTypeCodeAgain(d, entity) ==
    getElementsByTagName(d, entity, "Name") # <<>>

\* lines 110-114: the entity gets a generated element iff it has no
\* ObjectTypeCode and has a Name, both looked up with getElementsByTagName
needsObjectTypeCode(d, entity) ==
    /\ getElementsByTagName(d, entity, "ObjectTypeCode") = <<>>
    /\ getElementsByTagName(d, entity, "Name") # <<>>

\* lines 115-118. An empty textContent gives undefined, which no key of the
\* table equals; the values of the table are non-empty, so "|| '##'" only
\* replaces a missing one
lookupTypeCode(d, entity, typeCodes) ==
    LET nameElements == getElementsByTagName(d, entity, "Name")
        entityName   == TextContent(d, nameElements[1])
    IN  IF MapHas(typeCodes, entityName) THEN MapGet(typeCodes, entityName)
        ELSE Placeholder

\* the new element appended as last child
insertObjectTypeCodeLast(d, entity, typeCode) ==
    LET objectTypeCode == Len(d.nodes) + 1
        text == Len(d.nodes) + 2
        d1 == CreateNode(d, Element("ObjectTypeCode", {}))
        d2 == AppendChild(CreateNode(d1, Text(typeCode)), objectTypeCode, text)
    IN  AppendChild(d2, entity, objectTypeCode)

\* lines 125-133: createElement, textContent = typeCode, then as first child
insertObjectTypeCode(d, entity, typeCode) ==
    LET objectTypeCode == Len(d.nodes) + 1
        text == Len(d.nodes) + 2
        d1 == CreateNode(d, Element("ObjectTypeCode", {}))
        d2 == AppendChild(CreateNode(d1, Text(typeCode)), objectTypeCode, text)
    IN  IF ChildNodes(d2, entity) # <<>>
        THEN InsertFirst(d2, entity, objectTypeCode)
        ELSE AppendChild(d2, entity, objectTypeCode)

\* the for loop of addObjectTypeCode over the live list of Entity elements
RECURSIVE EntityLoop(_, _, _, _, _)
EntityLoop(d, typeCodes, i, added, notFound) ==
    LET entities == getElementsByTagName(d, DocumentNode, "Entity")
    IN  IF i > Len(entities)
        THEN [doc |-> d, addedCount |-> added, notFoundCount |-> notFound]
        ELSE LET entity == entities[i]
             IN  IF needsObjectTypeCode(d, entity)
                 THEN LET typeCode == lookupTypeCode(d, entity, typeCodes)
                      IN  EntityLoop(insertObjectTypeCode(d, entity, typeCode),
                                     typeCodes, i + 1, added + 1,
                                     IF typeCode = Placeholder THEN notFound + 1
                                     ELSE notFound)
                 ELSE EntityLoop(d, typeCodes, i + 1, added, notFound)

addObjectTypeCode(d, typeCodes) == EntityLoop(d, typeCodes, 1, 0, 0)

\* a process that never looks for the parsererror element
hasParseErrorsIgnored(d) == FALSE

\* lines 159-162
hasParseErrors(d) == getElementsByTagName(d, DocumentNode, "parsererror") # <<>>

\* a process that skips the copy
createBackupSkipped(files, content) == files

\* fs.copyFileSync(filePath, backupPath): one more backup file
createBackup(files, content) == Append(files, content)

\* lines 199-216: what main decides from its arguments and the two paths
validate(argc, configExists, xmlExists) ==
    IF argc # 2 THEN "usage"
    ELSE IF ~configExists THEN "configMissing"
    ELSE IF ~xmlExists THEN "xmlMissing"
    ELSE "ok"

----------------------------------------------------------------------------
(* The process: main, the constructor, processFile *)

Exit(code, why) ==
    /\ pc' = "exit"
    /\ exitCode' = code
    /\ failedAt' = why

Continue(next) ==
    /\ pc' = next
    /\ UNCHANGED <<exitCode, failedAt>>

\* main, lines 196-216: the argument count and the two existsSync checks
Main ==
    /\ pc = "main"
    /\ \E argc \in 1..3, configExists \in BOOLEAN, xmlExists \in BOOLEAN :
         LET verdict == validate(argc, configExists, xmlExists)
         IN  IF verdict = "ok" THEN Continue("loadConfig") ELSE Exit(1, verdict)
    /\ UNCHANGED <<config, csvFile, xmlFile, backups, entityTypeCodes, doc, idx,
                   removedCounts, attrCounts, addedCount, notFoundCount,
                   original, parsedLen, writes, outputs>>

\* loadConfig, lines 15-23: readFileSync or JSON.parse may throw; when they
\* do not, this.config is the value of the file
LoadConfig ==
    /\ pc = "loadConfig"
    /\ \E parses \in BOOLEAN :
         IF parses THEN Continue("loadEntityTypeCodes") ELSE Exit(1, "configParse")
    /\ UNCHANGED <<config, csvFile, xmlFile, backups, entityTypeCodes, doc, idx,
                   removedCounts, attrCounts, addedCount, notFoundCount,
                   original, parsedLen, writes, outputs>>

\* loadEntityTypeCodes, lines 25-54
LoadEntityTypeCodes ==
    /\ pc = "loadEntityTypeCodes"
    /\ entityTypeCodes' = loadEntityTypeCodes(config, csvFile)
    /\ Continue("createBackup")
    /\ UNCHANGED <<config, csvFile, xmlFile, backups, doc, idx,
                   removedCounts, attrCounts, addedCount, notFoundCount,
                   original, parsedLen, writes, outputs>>

\* createBackup, lines 56-62, called at line 152; copyFileSync may throw
CreateBackup ==
    /\ pc = "createBackup"
    /\ \E copied \in BOOLEAN :
         IF copied
         THEN backups' = createBackup(backups, xmlFile) /\ Continue("read")
         ELSE backups' = backups /\ Exit(1, "backup")
    /\ UNCHANGED <<config, csvFile, xmlFile, entityTypeCodes, doc, idx,
                   removedCounts, attrCounts, addedCount, notFoundCount,
                   original, parsedLen, writes, outputs>>

\* lines 155-162: readFileSync may throw; on content that is not well formed
\* the DOM library decides what happens: it throws, it hands back a tree
\* holding a parsererror element, or it hands back what it could recover
\* (here: nothing) without any error
ReadAndParse ==
    /\ pc = "read"
    /\ \E readOk \in BOOLEAN, parser \in {"throw", "sentinel", "lenient"} :
         IF ~readOk
         THEN Exit(1, "read") /\ UNCHANGED <<doc, parsedLen>>
         ELSE IF ~xmlFile.wellFormed /\ parser = "throw"
         THEN Exit(1, "parse") /\ UNCHANGED <<doc, parsedLen>>
         ELSE LET parsed == IF xmlFile.wellFormed THEN parseFromString(xmlFile)
                            ELSE IF parser = "sentinel" THEN ParserErrorDocument
                            ELSE EmptyDocument
              IN  /\ doc' = parsed
                  /\ parsedLen' = Len(parsed.nodes)
                  /\ IF hasParseErrors(parsed) THEN Exit(1, "parse")
                     ELSE Continue("removeElements")
    /\ idx' = 1
    /\ UNCHANGED <<config, csvFile, xmlFile, backups, entityTypeCodes,
                   removedCounts, attrCounts, addedCount, notFoundCount,
                   original, writes, outputs>>

\* lines 165-168 and 64-80: one turn of tagNames.forEach per step; an absent
\* removeElements is an empty list
RemoveElements ==
    /\ pc = "removeElements"
    /\ IF idx > Len(config.removeElements)
       THEN /\ idx' = 1
            /\ pc' = "removeAttributes"
            /\ UNCHANGED <<doc, removedCounts>>
       ELSE LET r == removeElements(doc, config.removeElements[idx])
            IN  /\ doc' = r.doc
                /\ removedCounts' = Append(removedCounts, r.count)
                /\ idx' = idx + 1
                /\ pc' = pc
    /\ UNCHANGED <<config, csvFile, xmlFile, backups, entityTypeCodes,
                   attrCounts, addedCount, notFoundCount, exitCode, failedAt,
                   original, parsedLen, writes, outputs>>

\* lines 170-175 and 82-99: one rule of config.removeAttributes per step
RemoveAttributes ==
    /\ pc = "removeAttributes"
    /\ IF idx > Len(config.removeAttributes)
       THEN /\ idx' = 1
            /\ Continue("addObjectTypeCode")
            /\ UNCHANGED <<doc, attrCounts>>
       ELSE LET rule == config.removeAttributes[idx]
            IN  IF removeAttributesThrows(doc, rule)
                THEN /\ Exit(1, "removeAttributes")
                     /\ UNCHANGED <<doc, attrCounts, idx>>
                ELSE LET r == removeAttributes(doc, rule.tagName, rule.attributes)
                     IN  /\ doc' = r.doc
                         /\ attrCounts' = Append(attrCounts, r.removedCount)
                         /\ idx' = idx + 1
                         /\ Continue(pc)
    /\ UNCHANGED <<config, csvFile, xmlFile, backups, entityTypeCodes,
                   removedCounts, addedCount, notFoundCount,
                   original, parsedLen, writes, outputs>>

\* lines 177-180 and 101-145
AddObjectTypeCode ==
    /\ pc = "addObjectTypeCode"
    /\ IF config.addObjectTypeCode
       THEN LET r == addObjectTypeCode(doc, entityTypeCodes)
            IN  /\ doc' = r.doc
                /\ addedCount' = r.addedCount
                /\ notFoundCount' = r.notFoundCount
       ELSE UNCHANGED <<doc, addedCount, notFoundCount>>
    /\ pc' = "save"
    /\ UNCHANGED <<config, csvFile, xmlFile, backups, entityTypeCodes, idx,
                   removedCounts, attrCounts, exitCode, failedAt,
                   original, parsedLen, writes, outputs>>

\* lines 183-186: serialize, write over the input file, return; main ends
\* and the process exits with status 0
SerializeAndSave ==
    /\ pc = "save"
    /\ xmlFile' = serializeToString(doc)
    /\ writes' = writes + 1
    /\ outputs' = Append(outputs, xmlFile')
    /\ Exit(0, "none")
    /\ UNCHANGED <<config, csvFile, backups, entityTypeCodes, doc, idx,
                   removedCounts, attrCounts, addedCount, notFoundCount,
                   original, parsedLen>>

Next ==
    \/ Main
    \/ LoadConfig
    \/ LoadEntityTypeCodes
    \/ CreateBackup
    \/ ReadAndParse
    \/ RemoveElements
    \/ RemoveAttributes
    \/ AddObjectTypeCode
    \/ SerializeAndSave

\* the operator runs the tool once more, with the same arguments, on the
\* file the last run wrote
MaxRuns == 2

InvokeAgain ==
    /\ pc = "exit"
    /\ exitCode = 0
    /\ Len(outputs) < MaxRuns
    /\ pc' = "main"
    /\ failedAt' = "none"
    /\ original' = xmlFile
    /\ entityTypeCodes' = EmptyMap
    /\ doc' = EmptyDocument
    /\ idx' = 1
    /\ removedCounts' = <<>>
    /\ attrCounts' = <<>>
    /\ addedCount' = 0
    /\ notFoundCount' = 0
    /\ parsedLen' = 0
    /\ writes' = 0
    /\ UNCHANGED <<config, csvFile, xmlFile, backups, exitCode, outputs>>

NextAgain == Next \/ InvokeAgain

\* the state when the process starts, for given contents of the three files
Start(cfg, csv, xml) ==
    /\ pc = "main"
    /\ config = cfg
    /\ csvFile = csv
    /\ xmlFile = xml
    /\ backups = <<>>
    /\ entityTypeCodes = EmptyMap
    /\ doc = EmptyDocument
    /\ idx = 1
    /\ removedCounts = <<>>
    /\ attrCounts = <<>>
    /\ addedCount = 0
    /\ notFoundCount = 0
    /\ exitCode = 0
    /\ failedAt = "none"
    /\ original = xml
    /\ parsedLen = 0
    /\ writes = 0
    /\ outputs = <<>>

----------------------------------------------------------------------------
(* Inputs: the contents of the config file, of the type code file and of   *)
(* the XML file when the process starts                                    *)

Config(names, rules, add, codesFile) ==
    [removeElements |-> names, removeAttributes |-> rules,
     addObjectTypeCode |-> add, entityTypeCodesFile |-> codesFile]

Rule(tagName, attributes) ==
    [tagName |-> tagName, attributes |-> attributes, hasAttributes |-> TRUE]

\* a rule whose "attributes" key is missing
RuleWithoutAttributes(tagName) ==
    [tagName |-> tagName, attributes |-> <<>>, hasAttributes |-> FALSE]

CsvFile(lines) == [exists |-> TRUE, lines |-> lines]
NoCsvFile == [exists |-> FALSE, lines |-> <<>>]

\* every document with k nodes, listed in document order with each node's
\* depth: one root element, children only below elements
RECURSIVE Preorders(_, _)
Preorders(k, labels) ==
    IF k = 1
    THEN {<<[depth |-> 1, node |-> l]>> : l \in {x \in labels : x.kind = "element"}}
    ELSE UNION {
           {Append(p, [depth |-> dd, node |-> l]) :
                dd \in 2..(p[Len(p)].depth
                           + IF p[Len(p)].node.kind = "element" THEN 1 ELSE 0),
                l \in labels}
           : p \in Preorders(k - 1, labels)}

RECURSIVE PreorderTokens(_, _, _)
PreorderTokens(p, i, open) ==
    IF i > Len(p) \/ Len(open) >= p[i].depth
    THEN IF open = <<>> THEN <<>>
         ELSE <<CloseToken(open[Len(open)])>>
              \o PreorderTokens(p, i, SubSeq(open, 1, Len(open) - 1))
    ELSE IF p[i].node.kind = "text"
         THEN <<TextToken(p[i].node.data)>> \o PreorderTokens(p, i + 1, open)
         ELSE <<OpenToken(p[i].node)>>
              \o PreorderTokens(p, i + 1, Append(open, p[i].node.tag))

\* the well-formed files of at most n nodes over the given nodes
XmlFiles(n, labels) ==
    {WellFormed(MergeText(PreorderTokens(p, 1, <<>>))) :
        p \in UNION {Preorders(k, labels) : k \in 1..n}}

\* every file of at most n lines from the pool
LineFiles(n, pool) ==
    {CsvFile(ls) : ls \in UNION {[1..k -> pool] : k \in 0..n}}

MaxMainNodes == 3
MaxElements == 4
MaxAttrNodes == 2
MaxEntityNodes == 4
MaxIdemNodes == 4
MaxCsvLines == 3

TextA == Text(<<"a">>)

CodesCsv == CsvFile(<<<<"a", ",", "1">>, <<"a", "a", ",", "2">>>>)

\* --- the whole process, with its failures
MainConfigs ==
    {Config(<<>>, <<>>, TRUE, TRUE),
     Config(<<"Name">>, <<Rule("Entity", <<"Color">>)>>, TRUE, TRUE),
     Config(<<>>, <<RuleWithoutAttributes("Entity")>>, FALSE, FALSE),
     Config(<<>>, <<>>, FALSE, FALSE)}

MainCsvFiles ==
    {NoCsvFile,
     CsvFile(<<>>),
     CsvFile(<<<<" ", " ">>, <<"\r">>>>),
     CsvFile(<<<<"a">>, <<"a", ";", "1">>>>),
     CsvFile(<<<<"a", ",", "1">>>>)}

MainXmlFiles ==
    {Malformed} \cup
    XmlFiles(MaxMainNodes, {Element("Entity", {}), Element("Name", {}), TextA})

Init ==
    \E cfg \in MainConfigs, csv \in MainCsvFiles, xml \in MainXmlFiles :
        Start(cfg, csv, xml)

Spec == Init /\ [][Next]_vars

\* --- the type code file
LinePool ==
    {<<"N", "a", "m", "e", ",", "C", "o", "d", "e">>,
     <<"a", ",", "1">>,
     <<"a", ",", "2">>,
     <<" ", "\"", "a", "\"", " ", ",", " ", "\"", "1", "\"", "\r">>,
     <<"a", ",", "1", ",", "2">>,
     <<"a">>,
     <<"a", ",", "\"", "\"">>,
     <<" ", " ">>,
     <<"\"", " ", "a", "\"", ",", "x", "\"", "y">>,
     <<"b", ",", "E", "n", "t", "i", "t", "y">>}

InitCsv ==
    \E csv \in LineFiles(MaxCsvLines, LinePool) \cup {NoCsvFile} :
        Start(Config(<<>>, <<>>, TRUE, TRUE), csv,
              WellFormed(<<OpenToken(Element("Entity", {})),
                           OpenToken(Element("Name", {})),
                           TextToken(<<"a">>),
                           CloseToken("Name"), CloseToken("Entity")>>))

SpecCsv == InitCsv /\ [][Next]_vars

\* --- removeElements
NameLists == {<<"A">>, <<"A", "B">>, <<"B", "A">>, <<"A", "A">>}

InitElements ==
    \E names \in NameLists,
       xml \in XmlFiles(MaxElements, {Element(t, {}) : t \in {"A", "B", "C"}}) :
        Start(Config(names, <<>>, FALSE, FALSE), NoCsvFile, xml)

SpecElements == InitElements /\ [][Next]_vars

\* --- removeAttributes
AttrSets ==
    {{},
     {<<"Color", "x">>},
     {<<"Color", "x">>, <<"ExternalValue", "y">>},
     {<<"ExternalValue", "x">>, <<"Id", "y">>}}

AttrConfigs ==
    {Config(<<>>, <<Rule("option", <<"Color">>)>>, FALSE, FALSE),
     Config(<<>>, <<Rule("option", <<"ExternalValue", "Color">>)>>, FALSE, FALSE),
     Config(<<>>, <<Rule("option", <<"Color", "Color">>)>>, FALSE, FALSE),
     Config(<<>>, <<Rule("option", <<"Color">>), Rule("Foo", <<"Id", "Color">>)>>,
            FALSE, FALSE),
     Config(<<"Foo">>, <<Rule("option", <<"ExternalValue", "Color">>)>>, FALSE, FALSE),
     Config(<<>>, <<RuleWithoutAttributes("option")>>, FALSE, FALSE)}

InitAttributes ==
    \E cfg \in AttrConfigs,
       xml \in XmlFiles(MaxAttrNodes,
                        {Element(t, a) : t \in {"option", "Foo"}, a \in AttrSets}) :
        Start(cfg, NoCsvFile, xml)

SpecAttributes == InitAttributes /\ [][Next]_vars

\* --- addObjectTypeCode
EntityLabels ==
    {Element("Entity", {}), Element("Name", {}), Element("ObjectTypeCode", {}), TextA}

InitEntities ==
    \E cfg \in {Config(<<>>, <<>>, TRUE, TRUE), Config(<<>>, <<>>, FALSE, FALSE)},
       xml \in XmlFiles(MaxEntityNodes, EntityLabels) :
        Start(cfg, CodesCsv, xml)

SpecEntities == InitEntities /\ [][Next]_vars

\* --- the tool run again on its own output
AgainConfigs ==
    {Config(names, <<Rule("Entity", <<"Color">>)>>, TRUE, TRUE) :
        names \in {<<>>, <<"ObjectTypeCode">>, <<"Name">>, <<"Name", "ObjectTypeCode">>}}

InitAgain ==
    \E cfg \in AgainConfigs,
       xml \in XmlFiles(MaxIdemNodes,
                        {Element("Entity", {<<"Color", "x">>}), Element("Name", {}),
                         Element("ObjectTypeCode", {}), TextA}) :
        Start(cfg, CodesCsv, xml)

SpecAgain == InitAgain /\ [][NextAgain]_vars

----------------------------------------------------------------------------
(* Properties *)

NodeIds(d) == 1..Len(d.nodes)

\* n hangs, through its chain of parents, below the Document node
RECURSIVE Attached(_, _)
Attached(d, n) ==
    LET p == d.nodes[n].parentNode
    IN  IF p = NullNode THEN FALSE
        ELSE IF p = DocumentNode THEN TRUE
        ELSE Attached(d, p)

\* a is a proper ancestor of n
RECURSIVE IsAncestor(_, _, _)
IsAncestor(d, a, n) ==
    LET p == d.nodes[n].parentNode
    IN  IF p = NullNode \/ p = DocumentNode THEN FALSE
        ELSE p = a \/ IsAncestor(d, a, p)

\* the elements named tag that are in the document
ElementsNamed(d, tag) ==
    {n \in NodeIds(d) :
        d.nodes[n].kind = "element" /\ d.nodes[n].tag = tag /\ Attached(d, n)}

HasChildNamed(d, e, tag) ==
    \E i \in 1..Len(d.nodes[e].childNodes) :
        d.nodes[d.nodes[e].childNodes[i]].tag = tag

HasDescendantNamed(d, e, tag) ==
    \E n \in NodeIds(d) : d.nodes[n].tag = tag /\ IsAncestor(d, e, n)

EarlyFailures == {"usage", "configMissing", "xmlMissing", "configParse"}
LateFailures == {"read", "parse", "removeAttributes"}

\* this process has made its backup copy
BackupTaken == Len(backups) > Len(outputs) - writes

LastBackupIsOriginal == backups # <<>> /\ backups[Len(backups)] = original

\* the constructor has finished: this.entityTypeCodes is set
Loaded ==
    /\ pc \notin {"main", "loadConfig", "loadEntityTypeCodes"}
    /\ failedAt \notin EarlyFailures

\* the document as the parser built it
Parsed == parseFromString(original)

----------------------------------------------------------------------------
\* C1: once the backup is taken, a failure of the read, of the parse (a
\* thrown error or a parsererror element in the tree) or of a transformation
\* ends the process with a non-zero status, the input file never written and
\* still holding its original content, and the backup holding that content;
\* and nothing is written by a process that does not end with status 0.
NothingWrittenOnFailure ==
    /\ failedAt \in LateFailures =>
          /\ pc = "exit" /\ exitCode # 0
          /\ writes = 0 /\ xmlFile = original
          /\ BackupTaken /\ LastBackupIsOriginal
    /\ (\E n \in NodeIds(doc) : doc.nodes[n].tag = "parsererror") =>
          /\ pc = "exit" /\ exitCode # 0 /\ failedAt = "parse"
          /\ writes = 0 /\ xmlFile = original
          /\ BackupTaken /\ LastBackupIsOriginal
    /\ (pc # "exit" \/ exitCode # 0) => writes = 0 /\ xmlFile = original

\* the parser reported its failure in the tree, and the process stopped
SentinelAbortReached ==
    /\ pc = "exit" /\ failedAt = "parse" /\ exitCode = 1
    /\ \E n \in NodeIds(doc) : doc.nodes[n].tag = "parsererror"
    /\ ~original.wellFormed /\ backups = <<original>>

\* C2: the backup exists before the file is read, parsed or overwritten, it
\* holds the original content whenever the file has been overwritten, and a
\* process that stops for a bad argument count, a missing config file, a
\* missing XML file or an unparseable config makes no backup.
BackupBeforeAnythingElse ==
    /\ writes > 0 => BackupTaken /\ LastBackupIsOriginal
    /\ (\/ pc \in {"read", "removeElements", "removeAttributes",
                   "addObjectTypeCode", "save"}
        \/ doc # EmptyDocument
        \/ failedAt \in LateFailures) => BackupTaken /\ LastBackupIsOriginal
    /\ failedAt \in EarlyFailures => ~BackupTaken /\ backups = <<>>

\* the file has been overwritten with something else, and the backup is there
OverwrittenWithBackupReached ==
    /\ writes > 0 /\ xmlFile # original
    /\ backups = <<original>>

\* C3: with entityTypeCodesFile set and the file missing, empty, blank or
\* without a single "name,code" line, the table is empty, the process goes
\* on, every generated ObjectTypeCode holds "##", and the exit status is 0
\* unless something else failed.
Unusable(file) ==
    \/ ~file.exists
    \/ \A i \in 1..Len(file.lines) :
          \A j \in 1..Len(file.lines[i]) : file.lines[i][j] # ","

Generated(d) ==
    {n \in (parsedLen + 1)..Len(d.nodes) : d.nodes[n].tag = "ObjectTypeCode"}

HoldsOnly(d, n, text) ==
    /\ Len(d.nodes[n].childNodes) = 1
    /\ d.nodes[d.nodes[n].childNodes[1]].kind = "text"
    /\ d.nodes[d.nodes[n].childNodes[1]].data = text

PlaceholdersWhenTableUnusable ==
    (config.entityTypeCodesFile /\ Unusable(csvFile)) =>
        /\ Loaded => entityTypeCodes = EmptyMap
        /\ pc = "exit" =>
              failedAt \in EarlyFailures \cup LateFailures \cup {"backup", "none"}
        /\ \A n \in Generated(doc) : HoldsOnly(doc, n, Placeholder)
        /\ notFoundCount = addedCount
        /\ (pc = "exit" /\ failedAt = "none") => exitCode = 0 /\ writes = 1

\* a blank type code file, and the process ended with status 0 after
\* generating a placeholder
PlaceholderRunReached ==
    /\ config.entityTypeCodesFile /\ csvFile.exists /\ csvFile.lines # <<>>
    /\ Unusable(csvFile)
    /\ pc = "exit" /\ exitCode = 0
    /\ Generated(doc) # {} /\ addedCount > 0

----------------------------------------------------------------------------
\* C8: the table loadEntityTypeCodes builds from the non-blank lines.

NotBlank(line) == \E j \in 1..Len(line) : ~IsWhitespace(line[j])

\* the lines that are read as records: the non-blank ones, without the
\* first when its lowercase form contains "entity" or "name"
Rows(file) ==
    LET kept == SelectSeq(file.lines, NotBlank)
    IN  IF kept # <<>> /\ IsHeader(kept[1]) THEN Tail(kept) ELSE kept

\* where the first comma of the line is; past its end when it has none
FirstComma(line) ==
    IF \E j \in 1..Len(line) : line[j] = ","
    THEN CHOOSE j \in 1..Len(line) :
            line[j] = "," /\ \A k \in 1..(j - 1) : line[k] # ","
    ELSE Len(line) + 1

BeforeFirstComma(line) == SubSeq(line, 1, FirstComma(line) - 1)
AfterFirstComma(line) == SubSeq(line, FirstComma(line) + 1, Len(line))

\* whitespace and quote characters taken off both ends
RECURSIVE StripEnds(_)
StripEnds(s) ==
    IF s = <<>> THEN s
    ELSE IF IsWhitespace(Head(s)) \/ Head(s) = "\"" THEN StripEnds(Tail(s))
    ELSE IF IsWhitespace(s[Len(s)]) \/ s[Len(s)] = "\""
         THEN StripEnds(SubSeq(s, 1, Len(s) - 1))
    ELSE s

\* the table of the rows: a row counts when both its fields are non-empty,
\* and of the rows with one key the last counts
TableOf(rows, Key(_), Value(_)) ==
    LET counts(i) == Key(rows[i]) # <<>> /\ Value(rows[i]) # <<>>
    IN  {<<Key(rows[i]), Value(rows[i])>> :
            i \in {i \in 1..Len(rows) :
                     /\ counts(i)
                     /\ \A j \in (i + 1)..Len(rows) :
                           counts(j) => Key(rows[j]) # Key(rows[i])}}

\* as claimed: two fields, cut at the first comma only, whitespace and
\* quotes trimmed from the ends of each
ClaimedKey(line) == StripEnds(BeforeFirstComma(line))
ClaimedValue(line) == StripEnds(AfterFirstComma(line))

\* as the code has it: a cut at every comma and the first two fields used,
\* whitespace trimmed from the ends of each and then every quote taken out
UsedKey(line) == RemoveQuotes(Trim(BeforeFirstComma(line)))
UsedValue(line) == RemoveQuotes(Trim(BeforeFirstComma(AfterFirstComma(line))))

\* C8 as stated: the second field is everything after the first comma.
TableSplitsAtFirstComma ==
    (Loaded /\ config.entityTypeCodesFile /\ csvFile.exists) =>
        entityTypeCodes = TableOf(Rows(csvFile), ClaimedKey, ClaimedValue)

\* C8 amended: the second field ends at the second comma, what follows is
\* dropped, and quote characters are removed wherever they are in a field
\* after the whitespace around it is trimmed.
TableUsesFirstTwoFields ==
    (Loaded /\ config.entityTypeCodesFile /\ csvFile.exists) =>
        entityTypeCodes = TableOf(Rows(csvFile), UsedKey, UsedValue)

\* a header, then two rows for the key "a": the later one is kept
LastRowKeptReached ==
    /\ Loaded
    /\ Len(csvFile.lines) = 3
    /\ IsHeader(csvFile.lines[1])
    /\ csvFile.lines[2] = <<"a", ",", "1">>
    /\ csvFile.lines[3] = <<"a", ",", "2">>
    /\ entityTypeCodes = {<<(<<"a">>), (<<"2">>)>>}

----------------------------------------------------------------------------
(* removeElements *)

Names == config.removeElements

Listed(tag) == \E i \in 1..Len(Names) : Names[i] = tag

\* n is named in the list or lies below an element that is
Doomed(d, n) ==
    \/ Listed(d.nodes[n].tag)
    \/ \E a \in NodeIds(d) : IsAncestor(d, a, n) /\ Listed(d.nodes[a].tag)

\* the forEach of removeElements has just ended
ElementsRemoved ==
    /\ pc = "removeAttributes" /\ idx = 1
    /\ original.wellFormed

\* C6: after removeElements, no element of the document bears a listed name,
\* every element that bore one is out of the document with all that was
\* below it, and every other node that had no listed ancestor is still in
\* the document, under the same parent and in the same order among its
\* siblings.
OnlyListedSubtreesRemoved ==
    ElementsRemoved =>
        /\ Len(doc.nodes) = Len(Parsed.nodes)
        /\ \A n \in NodeIds(doc) :
              /\ doc.nodes[n].tag = Parsed.nodes[n].tag
              /\ Attached(doc, n) => ~Listed(doc.nodes[n].tag)
              /\ Doomed(Parsed, n) => ~Attached(doc, n)
              /\ ~Doomed(Parsed, n) =>
                    /\ Attached(doc, n)
                    /\ doc.nodes[n].parentNode = Parsed.nodes[n].parentNode
                    /\ doc.nodes[n].childNodes =
                          SelectSeq(Parsed.nodes[n].childNodes,
                                    LAMBDA c : ~Doomed(Parsed, c))
        /\ doc.top = SelectSeq(Parsed.top, LAMBDA c : ~Doomed(Parsed, c))

\* two names done, something removed below a removed element, something kept
SubtreeRemovedReached ==
    /\ ElementsRemoved
    /\ Len(Names) = 2
    /\ \E n \in NodeIds(doc) : ~Listed(doc.nodes[n].tag) /\ ~Attached(doc, n)
    /\ \E n \in NodeIds(doc) : Attached(doc, n) /\ doc.nodes[n].parentNode # DocumentNode

\* C9: the count of a turn is the number of elements of that name in the
\* document when the turn begins; the turn detaches exactly those, and
\* touches no node that is outside the document (so none is detached or
\* counted again).
CountsWhatIsInTheDocument ==
    [][(pc = "removeElements" /\ idx <= Len(Names)) =>
          LET found == ElementsNamed(doc, Names[idx])
          IN  /\ removedCounts' = Append(removedCounts, Cardinality(found))
              /\ ElementsNamed(doc', Names[idx]) = {}
              /\ \A n \in found : doc'.nodes[n].parentNode = NullNode
              /\ \A n \in NodeIds(doc) :
                    (~Attached(doc, n) \/ n \notin found) =>
                        doc'.nodes[n].parentNode = doc.nodes[n].parentNode
    ]_vars

\* the second name counted nothing although the file had such an element:
\* it went with the subtree of the first name
NestedNotCountedReached ==
    /\ ElementsRemoved
    /\ Len(removedCounts) = 2 /\ removedCounts[1] > 0 /\ removedCounts[2] = 0
    /\ Names[1] # Names[2]
    /\ \E n \in NodeIds(Parsed) : Parsed.nodes[n].tag = Names[2]

----------------------------------------------------------------------------
(* removeAttributes *)

\* the same node but for its attributes
WithoutAttrs(node) == [node EXCEPT !.attrs = {}]

\* C7: one call of removeAttributes takes from every element of the document
\* named tagName the attributes it has among the listed ones, leaves every
\* other attribute with its value, leaves the other elements and the shape
\* of the tree alone, and counts the attributes it removed.
StripsOnlyListedAttributes ==
    [][(pc = "removeAttributes" /\ idx <= Len(config.removeAttributes)
        /\ pc' # "exit") =>
          LET rule    == config.removeAttributes[idx]
              listed  == {rule.attributes[i] : i \in 1..Len(rule.attributes)}
              targets == ElementsNamed(doc, rule.tagName)
              gone(n) == {a \in doc.nodes[n].attrs : a[1] \in listed}
          IN  /\ doc'.top = doc.top
              /\ Len(doc'.nodes) = Len(doc.nodes)
              /\ \A n \in NodeIds(doc) :
                    /\ WithoutAttrs(doc'.nodes[n]) = WithoutAttrs(doc.nodes[n])
                    /\ doc'.nodes[n].attrs =
                          IF n \in targets THEN doc.nodes[n].attrs \ gone(n)
                          ELSE doc.nodes[n].attrs
              /\ attrCounts' =
                    Append(attrCounts,
                           Cardinality(UNION {{<<n, a>> : a \in gone(n)} :
                                                 n \in targets}))
    ]_vars

\* a rule took two attributes away and an element kept another one
AttributeKeptReached ==
    /\ attrCounts # <<>> /\ attrCounts[1] >= 2
    /\ \E n \in NodeIds(doc) :
          /\ doc.nodes[n].tag = config.removeAttributes[1].tagName
          /\ Attached(doc, n)
          /\ doc.nodes[n].attrs # {}
          /\ doc.nodes[n].attrs # Parsed.nodes[n].attrs

----------------------------------------------------------------------------
(* addObjectTypeCode *)

Entities(d) == ElementsNamed(d, "Entity")

CodeFor(name) ==
    IF MapHas(entityTypeCodes, name) THEN MapGet(entityTypeCodes, name)
    ELSE Placeholder

\* the text content of the first Name element below e, in document order
FirstNameBelow(d, e) == TextContent(d, getElementsByTagName(d, e, "Name")[1])

\* the text content of the first child of e that is named Name
FirstNameChild(d, e) ==
    LET kids == d.nodes[e].childNodes
        i == CHOOSE i \in 1..Len(kids) :
                /\ d.nodes[kids[i]].tag = "Name"
                /\ \A j \in 1..(i - 1) : d.nodes[kids[j]].tag # "Name"
    IN  TextContent(d, kids[i])

\* in d2, e has a new first child: an ObjectTypeCode element holding only
\* the text; the children e had in d follow in their order
GotCode(d, d2, e, text) ==
    LET kids == d2.nodes[e].childNodes
    IN  /\ kids # <<>>
        /\ Tail(kids) = d.nodes[e].childNodes
        /\ Head(kids) > Len(d.nodes)
        /\ d2.nodes[Head(kids)].kind = "element"
        /\ d2.nodes[Head(kids)].tag = "ObjectTypeCode"
        /\ d2.nodes[Head(kids)].attrs = {}
        /\ d2.nodes[Head(kids)].parentNode = e
        /\ HoldsOnly(d2, Head(kids), text)

AddingCodes == pc = "addObjectTypeCode" /\ config.addObjectTypeCode

\* C4 as stated: an Entity with no child named ObjectTypeCode and with a
\* child named Name gets the code of that child's text as new first child.
CodeAddedByChildren ==
    [][AddingCodes =>
          \A e \in Entities(doc) :
              (~HasChildNamed(doc, e, "ObjectTypeCode") /\ HasChildNamed(doc, e, "Name"))
                  => GotCode(doc, doc', e, CodeFor(FirstNameChild(doc, e)))
    ]_vars

\* C4 amended: the two tests look at all the descendants of the Entity, and
\* the name is the text of its first Name descendant in document order.
CodeAddedByDescendants ==
    [][AddingCodes =>
          \A e \in Entities(doc) :
              (/\ ~HasDescendantNamed(doc, e, "ObjectTypeCode")
               /\ HasDescendantNamed(doc, e, "Name"))
                  => GotCode(doc, doc', e, CodeFor(FirstNameBelow(doc, e)))
    ]_vars

\* two Entity elements got a code, one of them, whose Name is not its
\* child, a code found in the table
DeepNameCodedReached ==
    /\ pc = "save" /\ config.addObjectTypeCode
    /\ addedCount >= 2
    /\ \E e \in Entities(doc) :
          /\ doc.nodes[e].childNodes[1] \in Generated(doc)
          /\ ~HoldsOnly(doc, doc.nodes[e].childNodes[1], Placeholder)
          /\ ~HasChildNamed(doc, e, "Name")

\* what Step C leaves alone, for the Entity elements picked out by Spared
LeavesAlone(Spared(_, _)) ==
    IF ~config.addObjectTypeCode
    THEN /\ doc' = doc
         /\ UNCHANGED <<addedCount, notFoundCount>>
    ELSE /\ doc'.top = doc.top
         /\ \A n \in NodeIds(doc) :
               /\ n \notin Entities(doc) => doc'.nodes[n] = doc.nodes[n]
               /\ (n \in Entities(doc) /\ Spared(doc, n)) =>
                     doc'.nodes[n] = doc.nodes[n]
         /\ addedCount' =
               Cardinality({e \in Entities(doc) : doc'.nodes[e] # doc.nodes[e]})
         /\ \A e \in Entities(doc) :
               doc'.nodes[e] # doc.nodes[e] => ~Spared(doc, e)

SparedByChildren(d, e) ==
    HasChildNamed(d, e, "ObjectTypeCode") \/ ~HasChildNamed(d, e, "Name")

SparedByDescendants(d, e) ==
    HasChildNamed(d, e, "ObjectTypeCode") \/ ~HasDescendantNamed(d, e, "Name")

\* C5 as stated: an Entity with a child named ObjectTypeCode, or without a
\* child named Name, keeps its children and is not counted; no other
\* element changes; nothing happens when addObjectTypeCode is false.
SparedWithoutNameChild == [][pc = "addObjectTypeCode" => LeavesAlone(SparedByChildren)]_vars

\* C5 amended: the Entity is spared when no descendant of it is named Name.
SparedWithoutNameDescendant == [][pc = "addObjectTypeCode" => LeavesAlone(SparedByDescendants)]_vars

\* an Entity that had its ObjectTypeCode kept its children while another
\* Entity got a generated one
SparedBesideCodedReached ==
    /\ pc = "save" /\ config.addObjectTypeCode /\ addedCount > 0
    /\ \E e \in Entities(doc) :
          /\ HasChildNamed(Parsed, e, "ObjectTypeCode")
          /\ HasDescendantNamed(Parsed, e, "Name")
          /\ doc.nodes[e] = Parsed.nodes[e]

----------------------------------------------------------------------------
\* C10: a run of the tool on the file an earlier run wrote, with the same
\* config and the same type code file, writes the same file again.
SecondRunWritesTheSame ==
    \A i \in 1..Len(outputs) : outputs[i] = outputs[1]

\* two runs are done, and the first one had changed the file
SecondRunReached ==
    /\ Len(outputs) >= 2
    /\ outputs[1] # backups[1]
    /\ Names # <<>>
    /\ addedCount > 0

====
